---- MODULE Spec2Model ----
(***************************************************************************)
(* The Escape/Grave tap dance of keymaps/nikallass/keymap.c: the per-event *)
(* hook process_record_user, the tap-dance callbacks esc_grave_finished    *)
(* and esc_grave_reset, and the part of the host (clock, modifier          *)
(* register, tap-dance facility, event dispatch) that calls them.          *)
(***************************************************************************)
EXTENDS Integers, Sequences, FiniteSets, TLC

VARIABLES
    clock,          \* the host's millisecond counter (true time since boot)
    td_state,       \* keymap.c: static td_tap_t td_state
    mods,           \* the host's registered (real) modifiers, get_mods()
    td,             \* tap_dance_actions[TD_ESC_GRV].state
    active_td,      \* the tap dance that is being counted, if any
    last_tap_time,  \* 16-bit time of the last counted press
    down,           \* the keys that are physically held
    nticks,         \* clock advances taken so far
    hist,           \* history: true times of the last press and timer write
    last            \* history: the calls made by the most recent step

vars == <<clock, td_state, mods, td, active_td, last_tap_time, down, nticks,
          hist, last>>

----------------------------------------------------------------------------
(* Bounds of the exploration *)

MaxTicks == 5
MaxCount == 3

(* The clock advances the model explores: two short ones that straddle the *)
(* tapping term and the tap timeout, and one a little short of a full turn *)
(* of the 16-bit counter.                                                  *)
ShortTicks == {100, 300}
IdleTicks == {65436}

----------------------------------------------------------------------------
(* Program constants *)

TAP_TIMEOUT == 500
TimerModulus == 65536
TAPPING_TERM == 200

TD_ESC_GRV == "TD(TD_ESC_GRV)"
KC_GRV == "KC_GRV"
KC_ESC == "KC_ESC"
KC_A == "KC_A"
KC_TASK == "KC_TASK"

ModBits == {"LCTL", "LSFT", "LALT", "LGUI", "RCTL", "RSFT", "RALT", "RGUI"}
MOD_MASK_CTRL == {"LCTL", "RCTL"}
MOD_MASK_SHIFT == {"LSFT", "RSFT"}
MOD_MASK_ALT == {"LALT", "RALT"}
MOD_MASK_GUI == {"LGUI", "RGUI"}

\* The keys whose events are explored: the bound key, an ordinary key and a
\* Keychron-specific key.
Keycodes == {TD_ESC_GRV, KC_A, KC_TASK}

----------------------------------------------------------------------------
(* Host services the keymap calls *)

timer_read(c) == c % TimerModulus

timer_elapsed(c, t) == (timer_read(c) + TimerModulus - t) % TimerModulus

\* One tap (press then release) of key, as the host reports it: the real
\* modifiers registered at that moment and the weak modifiers of the keycode.
Tap(key, weak, real) == [key |-> key, weak |-> weak, real |-> real]

tap_code(key, real) == <<Tap(key, {}, real)>>

tap_code16(key, weak, real) == <<Tap(key, weak, real)>>

unregister_mods(real, m) == real \ m

register_mods(real, m) == real \cup m

\* Keychron's common processing consumes the Keychron-specific keycodes and
\* passes every other keycode on.
process_record_keychron_common(keycode) == keycode # KC_TASK

----------------------------------------------------------------------------
(* keymap.c *)

InitTdState == [is_double_tapped |-> FALSE, timer |-> 0]

\* The outcome of one call: what it returns, the taps it sent, and the
\* state it leaves.
Outcome(ret, taps, ts, m) == [ret |-> ret, taps |-> taps, td_state |-> ts, mods |-> m]

\* Mutant: a double tap answered by a single Grave tap.
esc_grave_finished_single(count, ts, m, c) ==
    IF count >= 2
    THEN Outcome(TRUE, tap_code(KC_GRV, m),
                 [is_double_tapped |-> TRUE, timer |-> timer_read(c)], m)
    ELSE IF count = 1 /\ (~ts.is_double_tapped \/ timer_elapsed(c, ts.timer) >= TAP_TIMEOUT)
    THEN Outcome(TRUE, tap_code(KC_ESC, m), ts, m)
    ELSE Outcome(TRUE, <<>>, ts, m)

\* Mutant: the latch set by a single tap too.
esc_grave_finished_anycount(count, ts, m, c) ==
    IF count >= 1
    THEN Outcome(TRUE, tap_code(KC_GRV, m) \o tap_code(KC_GRV, m),
                 [is_double_tapped |-> TRUE, timer |-> timer_read(c)], m)
    ELSE Outcome(TRUE, <<>>, ts, m)

\* Mutant: the time of a single tap's Escape recorded in the timer.
esc_grave_finished_stamp(count, ts, m, c) ==
    IF count >= 2
    THEN Outcome(TRUE, tap_code(KC_GRV, m) \o tap_code(KC_GRV, m),
                 [is_double_tapped |-> TRUE, timer |-> timer_read(c)], m)
    ELSE IF count = 1 /\ (~ts.is_double_tapped \/ timer_elapsed(c, ts.timer) >= TAP_TIMEOUT)
    THEN Outcome(TRUE, tap_code(KC_ESC, m), [ts EXCEPT !.timer = timer_read(c)], m)
    ELSE Outcome(TRUE, <<>>, ts, m)

\* Mutant: only a count of exactly two treated as a double tap.
esc_grave_finished_exact2(count, ts, m, c) ==
    IF count = 2
    THEN Outcome(TRUE, tap_code(KC_GRV, m) \o tap_code(KC_GRV, m),
                 [is_double_tapped |-> TRUE, timer |-> timer_read(c)], m)
    ELSE IF count = 1 /\ (~ts.is_double_tapped \/ timer_elapsed(c, ts.timer) >= TAP_TIMEOUT)
    THEN Outcome(TRUE, tap_code(KC_ESC, m), ts, m)
    ELSE Outcome(TRUE, <<>>, ts, m)

esc_grave_finished(count, ts, m, c) ==
    IF count >= 2
    THEN Outcome(TRUE, tap_code(KC_GRV, m) \o tap_code(KC_GRV, m),
                 [is_double_tapped |-> TRUE, timer |-> timer_read(c)], m)
    ELSE IF count = 1 /\ (~ts.is_double_tapped \/ timer_elapsed(c, ts.timer) >= TAP_TIMEOUT)
    THEN Outcome(TRUE, tap_code(KC_ESC, m), ts, m)
    ELSE Outcome(TRUE, <<>>, ts, m)

\* Mutant: the latch cleared only once more than TAP_TIMEOUT has elapsed.
esc_grave_reset_gt(ts, c) ==
    IF timer_elapsed(c, ts.timer) > TAP_TIMEOUT
    THEN [ts EXCEPT !.is_double_tapped = FALSE]
    ELSE ts

esc_grave_reset(ts, c) ==
    IF timer_elapsed(c, ts.timer) >= TAP_TIMEOUT
    THEN [ts EXCEPT !.is_double_tapped = FALSE]
    ELSE ts

\* Mutant: the GUI+Shift rule refusing any further modifier.
GuiShiftRule_exact(m) ==
    /\ m \cap MOD_MASK_GUI # {}
    /\ m \cap MOD_MASK_SHIFT # {}
    /\ m \ (MOD_MASK_GUI \cup MOD_MASK_SHIFT) = {}

GuiShiftRule(m) == (m \cap MOD_MASK_GUI # {}) /\ (m \cap MOD_MASK_SHIFT # {})

\* Mutant: the Shift rule without the test for other modifiers.
ShiftRule_loose(m) == m \cap MOD_MASK_SHIFT # {}

ShiftRule(m) == (m \cap MOD_MASK_SHIFT # {}) /\ (m \ MOD_MASK_SHIFT = {})

AltRule(m) == (m \cap MOD_MASK_ALT # {}) /\ (m \ MOD_MASK_ALT = {})

GuiRule(m) == (m \cap MOD_MASK_GUI # {}) /\ (m \ MOD_MASK_GUI = {})

\* Mutant: grave mode continued on a release too.
GraveModeRule_anyevent(pressed, m, ts, c) ==
    /\ m = {}
    /\ ts.is_double_tapped
    /\ timer_elapsed(c, ts.timer) < TAP_TIMEOUT

\* Mutant: grave mode continued at exactly TAP_TIMEOUT ticks.
GraveModeRule_le(pressed, m, ts, c) ==
    /\ m = {}
    /\ ts.is_double_tapped
    /\ timer_elapsed(c, ts.timer) <= TAP_TIMEOUT
    /\ pressed

\* Mutant: the timeout tested by comparing the counter with timer + timeout.
GraveModeRule_absolute(pressed, m, ts, c) ==
    /\ m = {}
    /\ ts.is_double_tapped
    /\ timer_read(c) < ts.timer + TAP_TIMEOUT
    /\ pressed

GraveModeRule(pressed, m, ts, c) ==
    /\ m = {}
    /\ ts.is_double_tapped
    /\ timer_elapsed(c, ts.timer) < TAP_TIMEOUT
    /\ pressed

\* Mutant: the GUI+Shift rule leaving grave mode.
GuiShiftBranch_clear(pressed, m, ts) ==
    Outcome(FALSE,
            IF pressed THEN tap_code16(KC_GRV, {"LGUI", "LSFT"}, m) ELSE <<>>,
            [ts EXCEPT !.is_double_tapped = FALSE], m)

GuiShiftBranch(pressed, m, ts) ==
    Outcome(FALSE,
            IF pressed THEN tap_code16(KC_GRV, {"LGUI", "LSFT"}, m) ELSE <<>>,
            ts, m)

\* Mutant: Shift released for the tap and never registered again.
ShiftBranch_norestore(pressed, m, ts) ==
    IF pressed
    THEN LET off == unregister_mods(m, MOD_MASK_SHIFT)
         IN  Outcome(FALSE, tap_code(KC_GRV, off), ts, off)
    ELSE Outcome(FALSE, <<>>, ts, m)

ShiftBranch(pressed, m, ts) ==
    IF pressed
    THEN LET off == unregister_mods(m, MOD_MASK_SHIFT)
         IN  Outcome(FALSE, tap_code(KC_GRV, off), ts, register_mods(off, m))
    ELSE Outcome(FALSE, <<>>, ts, m)

\* Mutant: the tap sent with Alt still registered.
AltBranch_keepalt(pressed, m, ts) ==
    IF pressed
    THEN Outcome(FALSE, tap_code16(KC_GRV, {"LSFT"}, m), ts, register_mods(m, m))
    ELSE Outcome(FALSE, <<>>, ts, m)

AltBranch(pressed, m, ts) ==
    IF pressed
    THEN LET off == unregister_mods(m, MOD_MASK_ALT)
         IN  Outcome(FALSE, tap_code16(KC_GRV, {"LSFT"}, off), ts, register_mods(off, m))
    ELSE Outcome(FALSE, <<>>, ts, m)

\* Mutant: the GUI rule consuming the press only.
GuiBranch_passrelease(pressed, m, ts) ==
    IF pressed
    THEN Outcome(FALSE, tap_code16(KC_GRV, {"LGUI"}, m), ts, m)
    ELSE Outcome(process_record_keychron_common(TD_ESC_GRV), <<>>, ts, m)

GuiBranch(pressed, m, ts) ==
    Outcome(FALSE,
            IF pressed THEN tap_code16(KC_GRV, {"LGUI"}, m) ELSE <<>>,
            ts, m)

\* Mutant: a Grave sent in grave mode without refreshing the timer.
GraveModeBranch_norefresh(m, ts, c) ==
    Outcome(FALSE, tap_code(KC_GRV, m), ts, m)

GraveModeBranch(m, ts, c) ==
    Outcome(FALSE, tap_code(KC_GRV, m), [ts EXCEPT !.timer = timer_read(c)], m)

CommonBranch(keycode, m, ts) ==
    Outcome(process_record_keychron_common(keycode), <<>>, ts, m)

\* Mutant: the rules applied to every keycode.
IsBoundKey_any(keycode) == keycode = keycode

IsBoundKey(keycode) == keycode = TD_ESC_GRV

process_record_user(keycode, pressed, m, ts, c) ==
    IF IsBoundKey(keycode) /\ GuiShiftRule(m) THEN GuiShiftBranch(pressed, m, ts)
    ELSE IF IsBoundKey(keycode) /\ ShiftRule(m) THEN ShiftBranch(pressed, m, ts)
    ELSE IF IsBoundKey(keycode) /\ AltRule(m) THEN AltBranch(pressed, m, ts)
    ELSE IF IsBoundKey(keycode) /\ GuiRule(m) THEN GuiBranch(pressed, m, ts)
    ELSE IF IsBoundKey(keycode) /\ GraveModeRule(pressed, m, ts, c)
    THEN GraveModeBranch(m, ts, c)
    ELSE CommonBranch(keycode, m, ts)

----------------------------------------------------------------------------
(* History: the calls one step makes, in the order it makes them *)

Call(fn, keycode, pressed, count, c, m0, ts0, out) ==
    [fn |-> fn, keycode |-> keycode, pressed |-> pressed, count |-> count,
     clock |-> c, mods0 |-> m0, td0 |-> ts0,
     ret |-> out.ret, taps |-> out.taps, td1 |-> out.td_state, mods1 |-> out.mods]

----------------------------------------------------------------------------
(* The host's tap-dance facility.  D is the machine state one event or one *)
(* task run works on: the dance's state, the active dance, the time of the *)
(* last counted press, td_state, and the calls made so far.                *)

IdleTd == [count |-> 0, pressed |-> FALSE, finished |-> FALSE, interrupted |-> FALSE]

on_reset(D, m, c) ==
    LET ts == esc_grave_reset(D.ts, c)
    IN  [D EXCEPT !.td = IdleTd,
                  !.ts = ts,
                  !.log = Append(@, Call("esc_grave_reset", TD_ESC_GRV, D.td.pressed,
                                         D.td.count, c, m, D.ts, Outcome(TRUE, <<>>, ts, m)))]

on_dance_finished(D, m, c) ==
    LET fin == esc_grave_finished(D.td.count, D.ts, m, c)
        D1 == IF D.td.finished
              THEN D
              ELSE [D EXCEPT !.td.finished = TRUE,
                             !.ts = fin.td_state,
                             !.log = Append(@, Call("esc_grave_finished", TD_ESC_GRV,
                                                    D.td.pressed, D.td.count, c, m, D.ts, fin))]
        D2 == [D1 EXCEPT !.active = FALSE]
    IN  IF D2.td.pressed THEN D2 ELSE on_reset(D2, m, c)

preprocess_tap_dance(D, keycode, pressed, m, c) ==
    IF pressed /\ D.active /\ keycode # TD_ESC_GRV
    THEN on_dance_finished([D EXCEPT !.td.interrupted = TRUE], m, c)
    ELSE D

process_tap_dance(D, keycode, pressed, m, c) ==
    IF keycode # TD_ESC_GRV THEN D
    ELSE IF pressed
    THEN [D EXCEPT !.td.pressed = TRUE,
                   !.td.count = @ + 1,
                   !.ltt = timer_read(c),
                   !.active = ~D.td.finished]
    ELSE IF D.td.finished
    THEN [on_reset([D EXCEPT !.td.pressed = FALSE], m, c) EXCEPT !.active = FALSE]
    ELSE [D EXCEPT !.td.pressed = FALSE]

TaskDue == active_td /\ timer_elapsed(clock, last_tap_time) > TAPPING_TERM

----------------------------------------------------------------------------
(* History of true times *)

TimerWritten(call) ==
    \/ call.fn = "esc_grave_finished" /\ call.count >= 2
    \/ /\ call.fn = "process_record_user"
       /\ IsBoundKey(call.keycode)
       /\ call.ret = FALSE
       /\ call.mods0 = {}

InitHist == [timerAt |-> 0, pressAt |-> -1, isolated |-> FALSE, quiet |-> FALSE,
             late |-> FALSE, pressMods |-> {}]

HistAfter(keycode, pressed, log) ==
    LET h1 == IF IsBoundKey(keycode) /\ pressed
              THEN [hist EXCEPT
                      !.pressAt = clock,
                      !.pressMods = mods,
                      !.isolated = (hist.pressAt = -1 \/ clock - hist.pressAt > TAP_TIMEOUT),
                      !.quiet = (clock - hist.timerAt > TAP_TIMEOUT),
                      !.late = /\ td_state.is_double_tapped
                               /\ hist.pressAt <= hist.timerAt
                               /\ clock - hist.timerAt > TAP_TIMEOUT]
              ELSE hist
    IN  IF \E i \in DOMAIN log : TimerWritten(log[i])
        THEN [h1 EXCEPT !.timerAt = clock]
        ELSE h1

----------------------------------------------------------------------------
(* The state machine *)

Init ==
    /\ clock = 0
    /\ td_state = InitTdState
    /\ mods = {}
    /\ td = IdleTd
    /\ active_td = FALSE
    /\ last_tap_time = 0
    /\ down = {}
    /\ nticks = 0
    /\ hist = InitHist
    /\ last = <<>>

\* One key transition, as the host dispatches it: preprocess_tap_dance, the
\* keymap's hook, and, unless the hook consumed the event, the tap-dance
\* processing of the key.
Dispatch(keycode, pressed) ==
    LET D0 == [td |-> td, active |-> active_td, ltt |-> last_tap_time,
               ts |-> td_state, log |-> <<>>]
        D1 == preprocess_tap_dance(D0, keycode, pressed, mods, clock)
        hook == process_record_user(keycode, pressed, mods, D1.ts, clock)
        D2 == [D1 EXCEPT !.ts = hook.td_state,
                         !.log = Append(@, Call("process_record_user", keycode, pressed,
                                                D1.td.count, clock, mods, D1.ts, hook))]
        D3 == IF hook.ret
              THEN process_tap_dance(D2, keycode, pressed, hook.mods, clock)
              ELSE D2
    IN  /\ td' = D3.td
        /\ active_td' = D3.active
        /\ last_tap_time' = D3.ltt
        /\ td_state' = D3.ts
        /\ mods' = hook.mods
        /\ last' = D3.log
        /\ hist' = HistAfter(keycode, pressed, D3.log)
        /\ UNCHANGED <<clock, nticks>>

PressKey(keycode) ==
    /\ ~TaskDue
    /\ keycode \notin down
    /\ IsBoundKey(keycode) => td.count < MaxCount
    /\ down' = down \cup {keycode}
    /\ Dispatch(keycode, TRUE)

ReleaseKey(keycode) ==
    /\ ~TaskDue
    /\ keycode \in down
    /\ down' = down \ {keycode}
    /\ Dispatch(keycode, FALSE)

\* tap_dance_task, which the host runs on every scan: it is due as soon as
\* the tapping term has passed, before any later event or clock advance.
TapDanceTask ==
    /\ TaskDue
    /\ LET D0 == [td |-> td, active |-> active_td, ltt |-> last_tap_time,
                  ts |-> td_state, log |-> <<>>]
           D1 == IF td.interrupted THEN D0 ELSE on_dance_finished(D0, mods, clock)
       IN  /\ td' = D1.td
           /\ active_td' = D1.active
           /\ last_tap_time' = D1.ltt
           /\ td_state' = D1.ts
           /\ last' = D1.log
           /\ hist' = HistAfter(KC_A, FALSE, D1.log)
    /\ UNCHANGED <<clock, mods, down, nticks>>

Tick(d) ==
    /\ ~TaskDue
    /\ nticks < MaxTicks
    /\ d \in ShortTicks \/ (~active_td /\ d \in IdleTicks)
    /\ clock' = clock + d
    /\ nticks' = nticks + 1
    /\ last' = <<>>
    /\ UNCHANGED <<td_state, mods, td, active_td, last_tap_time, down, hist>>

\* The timed behaviour with no modifier held.
Next ==
    \/ \E keycode \in {TD_ESC_GRV, KC_A} : PressKey(keycode)
    \/ \E keycode \in {TD_ESC_GRV, KC_A} : ReleaseKey(keycode)
    \/ TapDanceTask
    \/ \E d \in ShortTicks \cup IdleTicks : Tick(d)

Spec == Init /\ [][Next]_vars

\* The hook under every modifier mask: key events arriving in any state of
\* td_state, at clock values on both sides of the timeout and of a wrap of
\* the 16-bit counter.
HookClocks == {700}
HookTimers == {200, 300, 65500}

InitHook ==
    /\ clock \in HookClocks
    /\ td_state \in [is_double_tapped : BOOLEAN, timer : HookTimers]
    /\ mods \in SUBSET ModBits
    /\ td = IdleTd
    /\ active_td = FALSE
    /\ last_tap_time = 0
    /\ down = {}
    /\ nticks = 0
    /\ hist = InitHist
    /\ last = <<>>

NextHook ==
    \/ \E keycode \in Keycodes : PressKey(keycode)
    \/ \E keycode \in Keycodes : ReleaseKey(keycode)

SpecHook == InitHook /\ [][NextHook]_vars

----------------------------------------------------------------------------
(* Properties.  Each is stated on the calls the most recent step made. *)

Calls == {last[i] : i \in DOMAIN last}

HookCalls == {c \in Calls : c.fn = "process_record_user"}

BoundKeyCalls == {c \in HookCalls : c.keycode = TD_ESC_GRV}

FinishedCalls == {c \in Calls : c.fn = "esc_grave_finished"}

ResetCalls == {c \in Calls : c.fn = "esc_grave_reset"}

\* The 16-bit difference between the time of the call and the stored timer.
Elapsed16(c) == (c.clock - c.td0.timer) % 65536

Grave(real) == [key |-> "KC_GRV", weak |-> {}, real |-> real]

Escape(real) == [key |-> "KC_ESC", weak |-> {}, real |-> real]

HasShift(m) == m \cap {"LSFT", "RSFT"} # {}
HasAlt(m) == m \cap {"LALT", "RALT"} # {}
HasGui(m) == m \cap {"LGUI", "RGUI"} # {}
OnlyShift(m) == HasShift(m) /\ m \subseteq {"LSFT", "RSFT"}
OnlyAlt(m) == HasAlt(m) /\ m \subseteq {"LALT", "RALT"}
OnlyGui(m) == HasGui(m) /\ m \subseteq {"LGUI", "RGUI"}

\* C1: with no modifier held, a press of the bound key that comes more than
\* TAP_TIMEOUT ticks (true time) after grave mode was entered or last
\* continued sends no Grave at once, is answered by one Escape when its tap
\* sequence finishes, and the reset that follows leaves grave mode.
C1_LatePressLeavesGraveMode ==
    /\ \A c \in BoundKeyCalls :
          (c.pressed /\ c.mods0 = {} /\ hist.late) => c.taps = <<>>
    /\ \A c \in FinishedCalls :
          (c.count = 1 /\ c.mods0 = {} /\ hist.late) => c.taps = <<Escape({})>>
    /\ \A c \in ResetCalls :
          (c.count = 1 /\ c.mods0 = {} /\ hist.late) => ~c.td1.is_double_tapped

\* C2: with no modifier held, a press of the bound key that comes more than
\* TAP_TIMEOUT ticks (true time) after the previous press of that key and
\* after the last write of td_state.timer, and that stays alone in its tap
\* sequence, sends no Grave and is answered by exactly one Escape.
C2_IsolatedPressEmitsEscape ==
    /\ \A c \in BoundKeyCalls :
          (c.pressed /\ c.mods0 = {} /\ hist.isolated /\ hist.quiet) => c.taps = <<>>
    /\ \A c \in FinishedCalls :
          (c.count = 1 /\ c.mods0 = {} /\ hist.isolated /\ hist.quiet)
              => c.taps = <<Escape({})>>

C4_GuiShiftPress ==
    \A c \in BoundKeyCalls :
        (c.pressed /\ HasGui(c.mods0) /\ HasShift(c.mods0)) =>
            /\ c.taps = <<[key |-> "KC_GRV", weak |-> {"LGUI", "LSFT"}, real |-> c.mods0]>>
            /\ c.ret = FALSE
            /\ td.count = c.count

C4_Witness ==
    \E c \in BoundKeyCalls :
        /\ c.pressed
        /\ c.mods0 = {"RGUI", "LSFT", "LCTL", "RALT"}
        /\ Len(c.taps) = 1

\* C5: under every mask of Shift bits only, a press of the bound key sends
\* exactly one plain Grave tap with no Shift bit registered, and the hook
\* returns with the registered modifiers equal to the mask held before.
C5_ShiftPressRestoresMods ==
    \A c \in BoundKeyCalls :
        (c.pressed /\ OnlyShift(c.mods0)) =>
            /\ c.taps = <<Grave({})>>
            /\ c.mods1 = c.mods0
            /\ mods = c.mods0

C5_Witness ==
    \E c \in BoundKeyCalls :
        c.pressed /\ c.mods0 = {"LSFT", "RSFT"} /\ c.taps = <<Grave({})>>

\* C6: under every mask of Alt bits only, a press of the bound key sends
\* exactly one Shift+Grave tap with no Alt bit registered, and the hook
\* returns with the registered modifiers equal to the mask held before.
C6_AltPressRestoresMods ==
    \A c \in BoundKeyCalls :
        (c.pressed /\ OnlyAlt(c.mods0)) =>
            /\ c.taps = <<[key |-> "KC_GRV", weak |-> {"LSFT"}, real |-> {}]>>
            /\ c.mods1 = c.mods0
            /\ mods = c.mods0

C6_Witness ==
    \E c \in BoundKeyCalls :
        c.pressed /\ c.mods0 = {"RALT"} /\ Len(c.taps) = 1 /\ mods = {"RALT"}

\* C7: under every mask of GUI bits only, a press of the bound key sends
\* exactly one GUI+Grave tap, and the hook returns false on the press and
\* on the release.
C7_GuiConsumed ==
    \A c \in BoundKeyCalls :
        OnlyGui(c.mods0) =>
            /\ c.ret = FALSE
            /\ c.pressed =>
                  c.taps = <<[key |-> "KC_GRV", weak |-> {"LGUI"}, real |-> c.mods0]>>

C7_Witness ==
    \E c \in BoundKeyCalls :
        ~c.pressed /\ c.mods0 = {"LGUI", "RGUI"} /\ c.ret = FALSE

\* C8: under every mask and in every td_state, the hook called with a
\* release of the bound key sends no tap and leaves td_state and the
\* registered modifiers as they were.
C8_ReleaseDoesNothing ==
    \A c \in BoundKeyCalls :
        ~c.pressed => c.taps = <<>> /\ c.td1 = c.td0 /\ c.mods1 = c.mods0

\* A release with no modifier held, in grave mode and within the timeout.
C8_Witness ==
    \E c \in BoundKeyCalls :
        /\ ~c.pressed
        /\ c.mods0 = {}
        /\ c.td0.is_double_tapped
        /\ Elapsed16(c) < 500

C10_BoundKeyAlwaysConsumed ==
    \A c \in BoundKeyCalls : c.ret = FALSE

\* C10 as amended: a press or release of the bound key returns false
\* exactly when the mask matches one of the four modifier rules, or the
\* event is a press with no modifier held, in grave mode, made less than
\* TAP_TIMEOUT ticks (16-bit difference) after td_state.timer; every other
\* event of the bound key returns true.
C10_BoundKeyConsumedIff ==
    \A c \in BoundKeyCalls :
        c.ret = FALSE <=>
            \/ HasGui(c.mods0) /\ HasShift(c.mods0)
            \/ OnlyShift(c.mods0)
            \/ OnlyAlt(c.mods0)
            \/ OnlyGui(c.mods0)
            \/ c.pressed /\ c.mods0 = {} /\ c.td0.is_double_tapped /\ Elapsed16(c) < 500

\* A press with no modifier held, in grave mode, exactly TAP_TIMEOUT ticks
\* after the timer: passed on.
C10_Witness ==
    \E c \in BoundKeyCalls :
        /\ c.pressed /\ c.mods0 = {} /\ c.td0.is_double_tapped
        /\ Elapsed16(c) = 500
        /\ c.ret = TRUE

\* C11: a step takes td_state.is_double_tapped from false to true only
\* by a call of esc_grave_finished with a tap count of at least 2; no call
\* of process_record_user and no call of esc_grave_reset sets it.
C11_LatchSetOnlyByDoubleTap ==
    [][ /\ (~td_state.is_double_tapped /\ td_state'.is_double_tapped) =>
              \E i \in DOMAIN last' :
                  /\ last'[i].fn = "esc_grave_finished"
                  /\ last'[i].count >= 2
                  /\ ~last'[i].td0.is_double_tapped
                  /\ last'[i].td1.is_double_tapped
        /\ \A i \in DOMAIN last' :
              (~last'[i].td0.is_double_tapped /\ last'[i].td1.is_double_tapped) =>
                  last'[i].fn = "esc_grave_finished" /\ last'[i].count >= 2 ]_vars

\* A finished callback with two counted presses that sets the latch.
C11_Witness ==
    \E c \in FinishedCalls :
        c.count = 2 /\ ~c.td0.is_double_tapped /\ c.td1.is_double_tapped

\* The system is at rest: no key is held, no tap dance is being counted and
\* none awaits its reset, so no callback runs before the next key event.
AtRest == down = {} /\ ~active_td /\ td = IdleTd

\* C12: once TAP_TIMEOUT ticks have passed since td_state.timer was written
\* with no press of the bound key since, grave mode has been left without
\* any further key event: at rest, the latch is false.
C12_TimeoutAloneLeavesGraveMode ==
    (/\ AtRest
     /\ hist.pressAt <= hist.timerAt
     /\ clock - hist.timerAt >= 500
     /\ clock - hist.timerAt < 65536)
        => ~td_state.is_double_tapped

\* C13: in grave mode with no modifier held, a press of the bound key made
\* less than TAP_TIMEOUT ticks after td_state.timer sends exactly one Grave
\* tap and no Escape, sets the timer to the current time, keeps the latch,
\* returns false and is not counted by the tap dance; the step makes no
\* other call.
C13_GraveModePressRefreshes ==
    \A c \in BoundKeyCalls :
        (c.pressed /\ c.mods0 = {} /\ c.td0.is_double_tapped /\ Elapsed16(c) < 500) =>
            /\ c.taps = <<Grave({})>>
            /\ c.td1 = [is_double_tapped |-> TRUE, timer |-> c.clock % 65536]
            /\ td_state = c.td1
            /\ c.ret = FALSE
            /\ td.count = c.count
            /\ Calls = {c}

\* A Grave sent in grave mode some time after the timer was written, the
\* timer moving on to the time of the press.
C13_Witness ==
    \E c \in BoundKeyCalls :
        /\ c.pressed /\ c.mods0 = {} /\ c.td0.is_double_tapped
        /\ Elapsed16(c) = 400
        /\ c.taps = <<Grave({})>>
        /\ td_state.timer # c.td0.timer

\* C14 as claimed: when a press made outside grave mode with no modifier
\* held is resolved as a single tap and answered by an Escape, the current
\* time is recorded in td_state.timer.
C14_EscapeRecordsTime ==
    \A c \in FinishedCalls :
        (c.count = 1 /\ c.mods0 = {} /\ ~c.td0.is_double_tapped /\ c.taps = <<Escape({})>>)
            => c.td1.timer = c.clock % 65536

\* C14 as amended: such a single tap is answered by exactly one Escape and
\* td_state is left as it was: the timer is not written.
C14_EscapeLeavesTimer ==
    \A c \in FinishedCalls :
        (c.count = 1 /\ c.mods0 = {} /\ ~c.td0.is_double_tapped) =>
            /\ c.taps = <<Escape({})>>
            /\ c.td1 = c.td0
            /\ td_state = c.td0

\* An Escape sent at a time that differs from the stored timer.
C14_Witness ==
    \E c \in FinishedCalls :
        /\ c.count = 1 /\ c.mods0 = {} /\ ~c.td0.is_double_tapped
        /\ c.taps = <<Escape({})>>
        /\ c.clock % 65536 # c.td0.timer

\* C15: esc_grave_reset clears td_state.is_double_tapped exactly when the
\* 16-bit time elapsed since td_state.timer is at least TAP_TIMEOUT, leaves
\* it as it was otherwise, never changes td_state.timer and sends no tap;
\* the reset run in the same step as a double tap's finished callback
\* leaves grave mode on.
C15_ResetClearsIffTimedOut ==
    /\ \A c \in ResetCalls :
          /\ c.td1.is_double_tapped = (c.td0.is_double_tapped /\ Elapsed16(c) < 500)
          /\ c.td1.timer = c.td0.timer
          /\ c.taps = <<>>
          /\ c.mods1 = c.mods0
    /\ \A i \in DOMAIN last :
          (/\ last[i].fn = "esc_grave_finished"
           /\ last[i].count >= 2
           /\ i + 1 \in DOMAIN last
           /\ last[i + 1].fn = "esc_grave_reset") =>
              /\ last[i + 1].td1.is_double_tapped
              /\ td_state.is_double_tapped

\* A reset that runs with the latch set and exactly TAP_TIMEOUT elapsed,
\* and clears it.
C15_Witness ==
    \E c \in ResetCalls :
        /\ c.td0.is_double_tapped
        /\ Elapsed16(c) = 500
        /\ ~c.td1.is_double_tapped

\* C16: esc_grave_finished sends two Grave taps and enters grave mode with
\* the timer at the current time for every count of two or more; one Escape
\* with td_state unchanged for a count of one when the latch is clear or at
\* least TAP_TIMEOUT has elapsed since the timer; and nothing, with
\* td_state unchanged, otherwise.  No call of any handler or callback sends
\* more than two taps, or both an Escape and a Grave.
C16_FinishedCases ==
    /\ \A c \in FinishedCalls :
          IF c.count >= 2
          THEN /\ c.taps = <<Grave(c.mods0), Grave(c.mods0)>>
               /\ c.td1 = [is_double_tapped |-> TRUE, timer |-> c.clock % 65536]
          ELSE IF c.count = 1 /\ (~c.td0.is_double_tapped \/ Elapsed16(c) >= 500)
          THEN /\ c.taps = <<Escape(c.mods0)>>
               /\ c.td1 = c.td0
          ELSE /\ c.taps = <<>>
               /\ c.td1 = c.td0
    /\ \A c \in Calls :
          /\ Len(c.taps) <= 2
          /\ ~ /\ \E i \in DOMAIN c.taps : c.taps[i].key = KC_ESC
               /\ \E i \in DOMAIN c.taps : c.taps[i].key = KC_GRV

\* A finished callback for one counted press that finds the latch set and
\* less than TAP_TIMEOUT elapsed, and sends nothing.
C16_Witness ==
    \E c \in FinishedCalls :
        /\ c.count = 1
        /\ c.td0.is_double_tapped
        /\ Elapsed16(c) < 500
        /\ c.taps = <<>>

HasCtrl(m) == m \cap {"LCTL", "RCTL"} # {}

\* The masks handled by one of the four modifier rules.
ModifierRuleMask(m) ==
    (HasGui(m) /\ HasShift(m)) \/ OnlyShift(m) \/ OnlyAlt(m) \/ OnlyGui(m)

\* C17: an event of the bound key, press or release, under a mask handled
\* by one of the four modifier rules leaves td_state as it was, returns
\* false, and leaves the tap-dance count as it was.
C17_ModifierRulesKeepState ==
    \A c \in BoundKeyCalls :
        ModifierRuleMask(c.mods0) =>
            /\ c.td1 = c.td0
            /\ td_state = c.td0
            /\ c.ret = FALSE
            /\ td.count = c.count
            /\ Calls = {c}

\* A release of the bound key under GUI+Shift while grave mode is on and
\* within its timeout.
C17_Witness ==
    \E c \in BoundKeyCalls :
        /\ ~c.pressed
        /\ HasGui(c.mods0) /\ HasShift(c.mods0)
        /\ c.td0.is_double_tapped
        /\ Elapsed16(c) < 500
        /\ td_state.is_double_tapped

\* The non-empty masks outside the four modifier rules, as enumerated: a
\* Ctrl bit without both GUI and Shift, Shift with Alt, GUI with Alt.
UnmatchedMask(m) ==
    \/ HasCtrl(m) /\ ~(HasGui(m) /\ HasShift(m))
    \/ ~HasCtrl(m) /\ HasShift(m) /\ HasAlt(m) /\ ~HasGui(m)
    \/ ~HasCtrl(m) /\ HasGui(m) /\ HasAlt(m) /\ ~HasShift(m)

\* C20: the enumerated masks are exactly the non-empty masks that match
\* none of the four modifier rules; under each of them an event of the
\* bound key sends no tap, leaves td_state and the registered modifiers as
\* they were and returns what the common processing returns, grave mode or
\* not; and the hook changes td_state only under the empty mask.
C20_UnmatchedMaskPassesThrough ==
    \A c \in BoundKeyCalls :
        /\ UnmatchedMask(c.mods0) <=> (c.mods0 # {} /\ ~ModifierRuleMask(c.mods0))
        /\ UnmatchedMask(c.mods0) =>
              /\ c.taps = <<>>
              /\ c.td1 = c.td0
              /\ c.mods1 = c.mods0
              /\ mods = c.mods0
              /\ c.ret = process_record_keychron_common(c.keycode)
        /\ (c.td1 # c.td0 \/ (c.taps # <<>> /\ ~ModifierRuleMask(c.mods0))) =>
              c.mods0 = {}

\* A press of the bound key with Shift and Alt held while grave mode is on
\* and within its timeout: passed on, nothing sent.
C20_Witness ==
    \E c \in BoundKeyCalls :
        /\ c.pressed
        /\ c.mods0 = {"LSFT", "LALT"}
        /\ c.td0.is_double_tapped
        /\ Elapsed16(c) < 500
        /\ c.taps = <<>>
        /\ c.ret = TRUE

\* C18: whenever the true time elapsed since td_state.timer was recorded is
\* below 2^16 ticks, the 16-bit difference the code computes equals it, and
\* the three comparisons against TAP_TIMEOUT decide as the true elapsed time
\* would: a press in grave mode is answered by the hook exactly when it is
\* below the timeout, a single tap found with the latch set gets its Escape
\* exactly when it is not, and the reset keeps the latch exactly when it is
\* below; a counter wrap in between changes nothing.  The true elapsed time
\* of a call is 0 when an earlier call of the same step wrote the timer.
C18_WrapSafeComparisons ==
    [][ \A i \in DOMAIN last' :
          LET c == last'[i]
              te == IF \E j \in 1..(i - 1) : TimerWritten(last'[j])
                    THEN 0
                    ELSE c.clock - hist.timerAt
          IN  (te < 65536) =>
                /\ Elapsed16(c) = te
                /\ (/\ c.fn = "process_record_user"
                    /\ c.keycode = TD_ESC_GRV
                    /\ c.pressed
                    /\ c.mods0 = {}
                    /\ c.td0.is_double_tapped) =>
                       ((c.ret = FALSE) <=> (te < 500))
                /\ (/\ c.fn = "esc_grave_finished"
                    /\ c.count = 1
                    /\ c.td0.is_double_tapped) =>
                       ((c.taps = <<Escape(c.mods0)>>) <=> (te >= 500))
                /\ (/\ c.fn = "esc_grave_reset"
                    /\ c.td0.is_double_tapped) =>
                       (c.td1.is_double_tapped <=> (te < 500)) ]_vars

\* A reset that runs after the counter wrapped past the stored timer, with
\* a true elapsed time between the timeout and 2^16, and clears the latch.
C18_Witness ==
    \E c \in ResetCalls :
        /\ c.td0.is_double_tapped
        /\ c.clock % 65536 < c.td0.timer
        /\ c.clock - hist.timerAt >= 500
        /\ c.clock - hist.timerAt < 65536
        /\ ~c.td1.is_double_tapped

\* Every press of the bound key with no modifier held is either answered
\* at once by one Grave, or counted by the tap dance.
C19_PressAnsweredOrCounted ==
    \A c \in BoundKeyCalls :
        (c.pressed /\ c.mods0 = {}) =>
            \/ c.taps = <<Grave({})>> /\ c.ret = FALSE /\ td.count = c.count
            \/ c.taps = <<>> /\ c.ret = TRUE /\ td.count = c.count + 1

\* C19: no press of the bound key made with no modifier held is swallowed:
\* it is answered at once by a Grave or counted by the tap dance, and the
\* finished callback of every sequence of counted presses sends at least
\* one tap, whatever td_state and the time of the callback are.
C19_NoPressSwallowed ==
    /\ C19_PressAnsweredOrCounted
    /\ \A c \in FinishedCalls :
          (c.mods0 = {} /\ c.count >= 1) => Len(c.taps) >= 1

====
